---- MODULE Spec2Model ----
(***************************************************************************)
(* Model of the horse-racing simulation: Track (track.js), PlayerHorse     *)
(* (horse.js), AIHorse / AIManager (ai.js), InputHandler                   *)
(* (playerControls.js) and RaceGame (raceLoop.js).                         *)
(*                                                                         *)
(* Numbers.  The program computes in floating point; the model computes    *)
(* exactly, in integers.  Time is counted in units of 1/TimeScale second.  *)
(* A speed or a stamina value v of the program is stored as TimeScale * v  *)
(* and a distance d as TimeScale * TimeScale * d, so that                  *)
(*     speed    += acceleration * deltaTime                                *)
(*     stamina  -= staminaDrainRate * deltaTime                            *)
(*     distance += speed * deltaTime                                       *)
(* are exact without any division.  Fractions of the lap (progress) are    *)
(* compared by cross-multiplication, in hundredths.                        *)
(***************************************************************************)
EXTENDS Integers, Sequences, FiniteSets, TLC

VARIABLES
    gameState,       \* RaceGame.gameState
    countdownTimer,  \* RaceGame.countdownTimer          (time units)
    finalPlacements, \* RaceGame.finalPlacements
    resultsVisible,  \* RaceGame.resultsScreen.visible
    inputState,      \* InputHandler.inputState
    canvas,          \* canvas.width, canvas.height      (pixels)
    track,           \* the Track object's geometry
    horses,          \* <<playerHorse>> \o aiManager.aiHorses
    heldTime,        \* history: time horses[1] has held forward and boost
                     \* without a break since its stamina was full, -1 if
                     \* the run was broken
    raceTime,        \* history: deltaTime accumulated by the RACING ticks of
                     \* the current race
    lastTimestamp,   \* RaceGame.lastTimestamp (time units); followed by
                     \* GameLoopSpec, the other specifications draw the
                     \* difference of two frame timestamps directly
    countdownElapsed \* history: the deltaTime that update has been given
                     \* since COUNTDOWN was entered

vars == <<gameState, countdownTimer, finalPlacements, resultsVisible,
          inputState, canvas, track, horses, heldTime, raceTime, lastTimestamp,
          countdownElapsed>>

----------------------------------------------------------------------------
(* Units and bounds *)

\* time units per second: one unit is 100 ms
TimeScale == 10

\* number of opponents the model creates (the program creates 5)
AiCount == 1

\* longest race (time units of RACING ticks) the model follows
MaxRaceTime == 5

\* raw frame deltas (time units) a frame can arrive with, before the cap
FrameDeltas == {0, 1, 3}

\* largest deltaTime (time units) a direct update call is made with
MaxStepDt == 50

\* deltaTime values of direct update calls: 0, 0.5 s, 1 s and a long one
StepDeltas == {0, 5, 10, MaxStepDt}

\* number of calls in a row that are followed from one state
MaxCalls == 4

\* Math.random() outcomes, in thousandths
RandomDraws == {0, 999}

Min(a, b) == IF a < b THEN a ELSE b
Max(a, b) == IF a > b THEN a ELSE b

----------------------------------------------------------------------------
(* Game states, raceLoop.js *)

LOADING   == "loading"
MENU      == "menu"
COUNTDOWN == "countdown"
RACING    == "racing"
FINISHED  == "finished"

GAME_STATE == {LOADING, MENU, COUNTDOWN, RACING, FINISHED}

\* RaceGame.countdownTime, seconds
countdownTime == 3

----------------------------------------------------------------------------
(* Track, track.js *)

trackWidth == 140
laneCount  == 6

\* lengths of the track geometry are kept in 1/GeoScale pixel, which makes
\* canvas.width * 0.45 and canvas.height * 0.30 exact
GeoScale == 20

\* floor of the square root of n, known to lie in lo..hi (bisection)
RECURSIVE IsqrtIn(_, _, _)
IsqrtIn(n, lo, hi) ==
    IF lo >= hi THEN lo
    ELSE LET mid == (lo + hi + 1) \div 2
         IN  IF mid * mid <= n THEN IsqrtIn(n, mid, hi) ELSE IsqrtIn(n, lo, mid - 1)

Isqrt(n) == IsqrtIn(n, 0, 2048)

Abs(x) == IF x < 0 THEN -x ELSE x

\* the value that stands for NaN in a length: no length that the formula
\* computes is this small
NaN == -2147483647

\* Math.sqrt(4 - 3 * h) has a negative argument, or h is Infinity or NaN
\* because a + b = 0: the expression of calculateTrackLength is NaN.
\* 3h > 4 is 3 (a-b)^2 > 4 (a+b)^2.
lengthIsNaN(a, b) ==
    \/ a + b = 0
    \/ 3 * (a - b) * (a - b) > 4 * (a + b) * (a + b)

\* Track.calculateTrackLength for the centerline radii a, b (1/GeoScale
\* pixel): Ramanujan's formula, in distance units (pixel * TimeScale^2),
\* with pi = 355/113 and h kept in thousandths.  The sign of the result is
\* the sign of a + b.
RamanujanLength(a, b) ==
    IF lengthIsNaN(a, b) THEN NaN
    ELSE
    LET ratio  == (1000 * Abs(a - b)) \div Abs(a + b)    \* 1000 * |a-b|/|a+b|
        h1000  == (ratio * ratio) \div 1000
        root   == Isqrt(4000000 - 3000 * h1000)            \* 1000 * sqrt(4 - 3h)
        factor == 1000 + (3000 * h1000) \div (10000 + root)
        length == (((Abs(a + b) * factor) \div 1000) * 355 * TimeScale * TimeScale)
                    \div (113 * GeoScale)
    IN  IF a + b < 0 THEN -length ELSE length

calculateTrackLength(t) ==
    RamanujanLength(t.outerRadiusX - (trackWidth * GeoScale) \div 2,
                    t.outerRadiusY - (trackWidth * GeoScale) \div 2)

\* Track.handleResize(canvas): every derived field is recomputed in one call
handleResize(c) ==
    LET geo == [ centerX      |-> (c.width * GeoScale) \div 2,
                 centerY      |-> (c.height * GeoScale) \div 2,
                 outerRadiusX |-> (c.width * 45 * GeoScale) \div 100,
                 outerRadiusY |-> (c.height * 30 * GeoScale) \div 100,
                 innerRadiusX |-> (c.width * 45 * GeoScale) \div 100 - trackWidth * GeoScale,
                 innerRadiusY |-> (c.height * 30 * GeoScale) \div 100 - trackWidth * GeoScale ]
    IN  [ centerX      |-> geo.centerX,
          centerY      |-> geo.centerY,
          outerRadiusX |-> geo.outerRadiusX,
          outerRadiusY |-> geo.outerRadiusY,
          innerRadiusX |-> geo.innerRadiusX,
          innerRadiusY |-> geo.innerRadiusY,
          totalLength  |-> calculateTrackLength(geo) ]

\* x % y of JavaScript: the remainder has the sign of x.  x % 0 is NaN; it
\* is only used over the denominator y, and a fraction with denominator 0
\* stands for the non-finite value (NaN or Infinity) that the division gives.
jsRemainder(x, y) ==
    IF y = 0 THEN 0
    ELSE IF x >= 0 THEN x % Abs(y) ELSE -((-x) % Abs(y))

\* Track.getTrackPosition(distance, laneNumber).  The trigonometry is not
\* computed: the position is represented by what determines it, the
\* normalized distance (a fraction num/den of the lap), the lane radii
\* (times 3, laneSpacing = trackWidth / laneCount) and the center.
getTrackPosition(t, distance, laneNumber) ==
    [ num      |-> jsRemainder(distance, t.totalLength),
      den      |-> t.totalLength,
      radiusX3 |-> 3 * t.innerRadiusX
                     + laneNumber * ((3 * trackWidth * GeoScale) \div laneCount),
      radiusY3 |-> 3 * t.innerRadiusY
                     + laneNumber * ((3 * trackWidth * GeoScale) \div laneCount),
      centerX  |-> t.centerX,
      centerY  |-> t.centerY ]

\* window sizes (pixels) the canvas can take: laps of about 12.6 and 18.2
\* pixels, which a racer covers in a few frames
CanvasSizes == { [width |-> 160, height |-> 240],
                 [width |-> 162, height |-> 243] }

\* the window size of the direct-call specification
StepCanvas == [width |-> 1200, height |-> 800]

----------------------------------------------------------------------------
(* PlayerHorse, horse.js *)

\* PlayerHorse.trackProgress compared with a fraction given in hundredths:
\* distance / totalLength > m/100, >= m/100, <= m/100
ProgressAbove(h, t, m)   == h.distance * 100 >  m * t.totalLength
ProgressAtLeast(h, t, m) == h.distance * 100 >= m * t.totalLength
ProgressAtMost(h, t, m)  == h.distance * 100 <= m * t.totalLength

\* PlayerHorse.reset
reset(h, t) ==
    [h EXCEPT !.distance = 0,
              !.speed    = 0,
              !.stamina  = h.maxStamina * TimeScale,
              !.finished = FALSE,
              !.pos      = getTrackPosition(t, 0, h.laneNumber)]

\* new PlayerHorse(track, laneNumber)
PlayerHorse(t, lane) ==
    reset([ kind                |-> "player",
            laneNumber          |-> lane,
            distance            |-> 0,
            pos                 |-> getTrackPosition(t, 0, lane),
            speed               |-> 0,
            maxSpeed            |-> 500,
            boostMaxSpeed       |-> 700,
            acceleration        |-> 200,
            deceleration        |-> 300,
            stamina             |-> 100 * TimeScale,
            maxStamina          |-> 100,
            staminaDrainRate    |-> 25,
            staminaRecoveryRate |-> 10,
            finished            |-> FALSE ], t)

\* mutant of recoverStamina: the cap at maxStamina is missing
recoverStamina_noCap(h, deltaTime, input) ==
    IF ~input.boost
    THEN [h EXCEPT !.stamina = h.stamina + h.staminaRecoveryRate * deltaTime]
    ELSE h

\* the two identical "recover stamina when not boosting" blocks of handleInput
recoverStamina(h, deltaTime, input) ==
    IF ~input.boost
    THEN [h EXCEPT !.stamina = Min(h.stamina + h.staminaRecoveryRate * deltaTime,
                                   h.maxStamina * TimeScale)]
    ELSE h

\* handleInput with its parts given: the deceleration rate used, whether the
\* boost needs stamina, and whether speed and stamina are floored at 0
handleInputVariant(h, deltaTime, input, decel, needsStamina, floorSpeed, floorStamina) ==
    LET boosting == input.boost /\ (h.stamina > 0 \/ ~needsStamina)
        currentMaxSpeed == IF boosting THEN h.boostMaxSpeed ELSE h.maxSpeed
        branch ==
            IF input.forward
            THEN [h EXCEPT
                    !.speed   = Min(h.speed + h.acceleration * deltaTime,
                                    currentMaxSpeed * TimeScale),
                    !.stamina = IF input.boost /\ h.stamina > 0
                                THEN IF floorStamina
                                     THEN Max(h.stamina - h.staminaDrainRate * deltaTime, 0)
                                     ELSE h.stamina - h.staminaDrainRate * deltaTime
                                ELSE h.stamina]
            ELSE recoverStamina(
                    [h EXCEPT !.speed = IF floorSpeed
                                        THEN Max(h.speed - decel * deltaTime, 0)
                                        ELSE h.speed - decel * deltaTime],
                    deltaTime, input)
    IN  recoverStamina(branch, deltaTime, input)

\* mutant of handleInput: "if (this.speed < 0) this.speed = 0" is missing
handleInput_noSpeedFloor(h, deltaTime, input) ==
    handleInputVariant(h, deltaTime, input, h.deceleration, TRUE, FALSE, TRUE)

\* mutant of handleInput: currentMaxSpeed is boostMaxSpeed whenever boost is held
handleInput_boostIgnoresStamina(h, deltaTime, input) ==
    handleInputVariant(h, deltaTime, input, h.deceleration, FALSE, TRUE, TRUE)

\* mutant of handleInput: "if (this.stamina < 0) this.stamina = 0" is missing
handleInput_noDrainFloor(h, deltaTime, input) ==
    handleInputVariant(h, deltaTime, input, h.deceleration, TRUE, TRUE, FALSE)

\* mutant of handleInput: the horse slows down at its acceleration rate
handleInput_accelAsDecel(h, deltaTime, input) ==
    handleInputVariant(h, deltaTime, input, h.acceleration, TRUE, TRUE, TRUE)

\* mutant of handleInput: the intent is not acted on
handleInput_ignored(h, deltaTime, input) == h

\* PlayerHorse.handleInput
handleInput(h, deltaTime, input) ==
    LET boosting == input.boost /\ h.stamina > 0
        currentMaxSpeed == IF boosting THEN h.boostMaxSpeed ELSE h.maxSpeed
        branch ==
            IF input.forward
            THEN [h EXCEPT
                    !.speed   = Min(h.speed + h.acceleration * deltaTime,
                                    currentMaxSpeed * TimeScale),
                    !.stamina = IF boosting
                                THEN Max(h.stamina - h.staminaDrainRate * deltaTime, 0)
                                ELSE h.stamina]
            ELSE recoverStamina(
                    [h EXCEPT !.speed = Max(h.speed - h.deceleration * deltaTime, 0)],
                    deltaTime, input)
    IN  recoverStamina(branch, deltaTime, input)

\* PlayerHorse.updatePosition
updatePosition(h, t, deltaTime) ==
    LET d == h.distance + h.speed * deltaTime
    IN  [h EXCEPT !.distance = d,
                  !.pos      = getTrackPosition(t, d, h.laneNumber)]

\* PlayerHorse.checkRaceCompletion
checkRaceCompletion(h, t) ==
    IF h.distance >= t.totalLength THEN [h EXCEPT !.finished = TRUE] ELSE h

\* mutant of update: the early return of a finished horse is missing
update_noLatch(h, t, deltaTime, input) ==
    checkRaceCompletion(
        updatePosition(handleInput(h, deltaTime, input), t, deltaTime), t)

\* PlayerHorse.update
update(h, t, deltaTime, input) ==
    IF h.finished
    THEN h
    ELSE checkRaceCompletion(
             updatePosition(handleInput(h, deltaTime, input), t, deltaTime), t)

----------------------------------------------------------------------------
(* AIHorse and AIManager, ai.js *)

\* The values the AIHorse constructor derives from Math.random().  maxSpeed
\* lies in 400 + [0,200) * difficulty, acceleration in 180 + [0,40) * difficulty,
\* boostProbability (thousandths) in 10 + [0,30) * difficulty, boostDuration
\* (seconds) in 1 + [0,3), the strategic boost points (hundredths of the lap)
\* in 30 + [0,10) and 70 + [0,10), conserveStaminaThreshold in 30 + [0,40).
\* Both profiles are possible for every difficulty 0.8 .. 1.2.
AIProfiles ==
    { [ maxSpeed |-> 400, acceleration |-> 180, boostProbability |-> 10,
        boostDuration |-> 1, strategicBoostPoints |-> <<30, 70>>,
        conserveStaminaThreshold |-> 30 ],
      [ maxSpeed |-> 500, acceleration |-> 200, boostProbability |-> 25,
        boostDuration |-> 2, strategicBoostPoints |-> <<32, 75>>,
        conserveStaminaThreshold |-> 60 ] }

\* mutant of AIHorse_reset: the reset draws the boost duration and the
\* stamina threshold again
AIHorse_reset_redraw(h, t) ==
    [reset(h, t) EXCEPT !.isBoosting = FALSE,
                        !.boostTimer = 0,
                        !.usedStrategicBoosts = <<FALSE, FALSE>>,
                        !.boostDuration = 1 + (h.boostDuration % 3),
                        !.conserveStaminaThreshold =
                            30 + ((h.conserveStaminaThreshold + 10) % 40)]

\* mutant of AIHorse_reset: only PlayerHorse.reset runs
AIHorse_reset_superOnly(h, t) == reset(h, t)

\* AIHorse.reset
AIHorse_reset(h, t) ==
    [reset(h, t) EXCEPT !.isBoosting = FALSE,
                        !.boostTimer = 0,
                        !.usedStrategicBoosts = <<FALSE, FALSE>>]

\* new AIHorse(track, laneNumber, color, difficulty), with the random values
\* of the constructor given by profile
AIHorse(t, lane, profile) ==
    LET super == PlayerHorse(t, lane)
    IN  AIHorse_reset(
          [ kind                |-> "ai",
            laneNumber          |-> super.laneNumber,
            distance            |-> super.distance,
            pos                 |-> super.pos,
            speed               |-> super.speed,
            maxSpeed            |-> profile.maxSpeed,
            boostMaxSpeed       |-> (profile.maxSpeed * 14) \div 10,
            acceleration        |-> profile.acceleration,
            deceleration        |-> super.deceleration,
            stamina             |-> super.stamina,
            maxStamina          |-> super.maxStamina,
            staminaDrainRate    |-> super.staminaDrainRate,
            staminaRecoveryRate |-> super.staminaRecoveryRate,
            finished            |-> super.finished,
            boostProbability    |-> profile.boostProbability,
            boostDuration       |-> profile.boostDuration,
            boostTimer          |-> 0,
            isBoosting          |-> FALSE,
            strategicBoostPoints |-> profile.strategicBoostPoints,
            usedStrategicBoosts |-> <<FALSE, FALSE>>,
            conserveStaminaThreshold |-> profile.conserveStaminaThreshold ], t)

\* the boost-timer block at the head of determineInputState
tickBoostTimer(h, deltaTime) ==
    IF h.isBoosting
    THEN IF h.boostTimer - deltaTime <= 0
         THEN [h EXCEPT !.boostTimer = h.boostTimer - deltaTime, !.isBoosting = FALSE]
         ELSE [h EXCEPT !.boostTimer = h.boostTimer - deltaTime]
    ELSE h

\* mutant of strategicCandidates: a boost point fires whether used or not
strategicCandidates_usedAgain(h, t) ==
    { i \in 1..Len(h.strategicBoostPoints) :
        /\ ProgressAtLeast(h, t, h.strategicBoostPoints[i])
        /\ ProgressAtMost(h, t, h.strategicBoostPoints[i] + 10)
        /\ h.stamina > 40 * TimeScale }

\* the strategic boost points that fire in this call, in loop order
strategicCandidates(h, t) ==
    { i \in 1..Len(h.strategicBoostPoints) :
        /\ ~h.usedStrategicBoosts[i]
        /\ ProgressAtLeast(h, t, h.strategicBoostPoints[i])
        /\ ProgressAtMost(h, t, h.strategicBoostPoints[i] + 10)
        /\ h.stamina > 40 * TimeScale }

\* Math.random() < boostProbability * deltaTime * 60, random in thousandths
randomBoostDraw(h, deltaTime, random) ==
    random * TimeScale < h.boostProbability * deltaTime * 60

\* determineInputState with its parts given: whether the stamina rule is
\* there, and whether it lets a running boost window go on
determineInputStateVariant(h, t, deltaTime, random, conserves, windowGoesOn) ==
    LET h1         == tickBoostTimer(h, deltaTime)
        boost1     == h.isBoosting /\ h1.isBoosting
        nearFinish == ProgressAbove(h1, t, 85)
        cands      == strategicCandidates(h1, t)
    IN  IF conserves /\ h1.stamina < h1.conserveStaminaThreshold * TimeScale /\ ~nearFinish
        THEN [horse |-> h1,
              input |-> [forward |-> TRUE, boost |-> boost1 /\ windowGoesOn]]
        ELSE IF cands # {}
        THEN LET i == CHOOSE j \in cands : \A k \in cands : j <= k
             IN  [horse |-> [h1 EXCEPT !.isBoosting = TRUE,
                                       !.boostTimer = h1.boostDuration * TimeScale,
                                       !.usedStrategicBoosts[i] = TRUE],
                  input |-> [forward |-> TRUE, boost |-> TRUE]]
        ELSE LET start == /\ ~h1.isBoosting
                          /\ randomBoostDraw(h1, deltaTime, random)
                          /\ h1.stamina > 30 * TimeScale
                 h2    == IF start
                          THEN [h1 EXCEPT !.isBoosting = TRUE,
                                          !.boostTimer = h1.boostDuration * TimeScale]
                          ELSE h1
             IN  [horse |-> h2,
                  input |-> [forward |-> TRUE,
                             boost   |-> \/ boost1
                                         \/ start
                                         \/ (nearFinish /\ h1.stamina > 20 * TimeScale)]]

\* mutant of determineInputState: low stamina ends the boost of a running
\* boost window
determineInputState_lowStaminaStopsBoost(h, t, deltaTime, random) ==
    determineInputStateVariant(h, t, deltaTime, random, TRUE, FALSE)

\* mutant of determineInputState: the final-stretch rule is missing, boost
\* comes from a running window or from one that starts in the call
determineInputState_noFinalStretch(h, t, deltaTime, random) ==
    LET h1 == tickBoostTimer(h, deltaTime)
        d  == determineInputStateVariant(h, t, deltaTime, random, TRUE, TRUE)
    IN  [horse |-> d.horse,
         input |-> [forward |-> TRUE,
                    boost   |-> (h.isBoosting /\ h1.isBoosting) \/ d.horse # h1]]

\* mutant of determineInputState: the random rule does not ask for
\* !isBoosting, a draw during a window starts the window anew
determineInputState_randomRestarts(h, t, deltaTime, random) ==
    LET h1 == tickBoostTimer(h, deltaTime)
        d  == determineInputStateVariant(h, t, deltaTime, random, TRUE, TRUE)
    IN  IF /\ d.horse = h1
           /\ h1.isBoosting
           /\ randomBoostDraw(h1, deltaTime, random)
           /\ h1.stamina > 30 * TimeScale
           /\ (h1.stamina >= h1.conserveStaminaThreshold * TimeScale
                  \/ ProgressAbove(h1, t, 85))
        THEN [horse |-> [h1 EXCEPT !.boostTimer = h1.boostDuration * TimeScale],
              input |-> [forward |-> TRUE, boost |-> TRUE]]
        ELSE d

\* mutant of determineInputState: the stamina rule is missing
determineInputState_noConserve(h, t, deltaTime, random) ==
    determineInputStateVariant(h, t, deltaTime, random, FALSE, TRUE)

\* AIHorse.determineInputState: the horse with its timers updated, and the
\* simulated input
determineInputState(h, t, deltaTime, random) ==
    LET h1         == tickBoostTimer(h, deltaTime)
        boost1     == h.isBoosting /\ h1.isBoosting
        nearFinish == ProgressAbove(h1, t, 85)
        cands      == strategicCandidates(h1, t)
    IN  IF h1.stamina < h1.conserveStaminaThreshold * TimeScale /\ ~nearFinish
        THEN [horse |-> h1, input |-> [forward |-> TRUE, boost |-> boost1]]
        ELSE IF cands # {}
        THEN LET i == CHOOSE j \in cands : \A k \in cands : j <= k
             IN  [horse |-> [h1 EXCEPT !.isBoosting = TRUE,
                                       !.boostTimer = h1.boostDuration * TimeScale,
                                       !.usedStrategicBoosts[i] = TRUE],
                  input |-> [forward |-> TRUE, boost |-> TRUE]]
        ELSE LET start == /\ ~h1.isBoosting
                          /\ randomBoostDraw(h1, deltaTime, random)
                          /\ h1.stamina > 30 * TimeScale
                 h2    == IF start
                          THEN [h1 EXCEPT !.isBoosting = TRUE,
                                          !.boostTimer = h1.boostDuration * TimeScale]
                          ELSE h1
             IN  [horse |-> h2,
                  input |-> [forward |-> TRUE,
                             boost   |-> \/ boost1
                                         \/ start
                                         \/ (nearFinish /\ h1.stamina > 20 * TimeScale)]]

\* AIHorse.update
AIHorse_update(h, t, deltaTime, random) ==
    LET d == determineInputState(h, t, deltaTime, random)
    IN  update(d.horse, t, deltaTime, d.input)

\* the lane AIManager.createAIHorses gives opponent i (0-based)
aiLane(i) == IF i + 1 >= 3 THEN i + 2 ELSE i + 1

\* the input a horse is updated with
Intents == [forward : BOOLEAN, boost : BOOLEAN]

----------------------------------------------------------------------------
(* History of the boost scenario *)

\* time after which a full stamina is drained
DrainTime(h) == (h.maxStamina * TimeScale) \div h.staminaDrainRate

\* heldTime after the update of h (the state before the call) to post with
\* deltaTime and input; a finished horse's update does nothing
Held(h, post, deltaTime, input) ==
    IF h.finished THEN heldTime
    ELSE IF input.forward /\ input.boost /\ heldTime >= 0
    THEN Min(heldTime + deltaTime, DrainTime(h))
    ELSE IF post.stamina = post.maxStamina * TimeScale THEN 0 ELSE -1

----------------------------------------------------------------------------
(* Direct calls of one horse's methods: HorseSpec *)

HorseInit ==
    /\ gameState = MENU
    /\ countdownTimer = countdownTime * TimeScale
    /\ finalPlacements = <<>>
    /\ resultsVisible = FALSE
    /\ inputState = [forward |-> FALSE, boost |-> FALSE]
    /\ canvas = StepCanvas
    /\ track = handleResize(canvas)
    /\ horses \in { <<PlayerHorse(track, 3)>> }
                    \cup { <<AIHorse(track, aiLane(0), p)>> : p \in AIProfiles }
    /\ heldTime = 0
    /\ raceTime = 0
    /\ lastTimestamp = 0
    /\ countdownElapsed = 0

\* playerHorse.update(deltaTime, inputState)
CallPlayerUpdate ==
    /\ horses[1].kind = "player"
    /\ \E deltaTime \in StepDeltas, input \in Intents :
         LET post == update(horses[1], track, deltaTime, input)
         IN  /\ horses' = <<post>>
             /\ heldTime' = Held(horses[1], post, deltaTime, input)
    /\ UNCHANGED <<gameState, countdownTimer, finalPlacements, resultsVisible,
                   inputState, canvas, track, raceTime,
                   lastTimestamp, countdownElapsed>>

\* aiHorse.update(deltaTime)
CallAIUpdate ==
    /\ horses[1].kind = "ai"
    /\ \E deltaTime \in StepDeltas, random \in RandomDraws :
         LET d    == determineInputState(horses[1], track, deltaTime, random)
             post == AIHorse_update(horses[1], track, deltaTime, random)
         IN  /\ horses' = <<post>>
             /\ heldTime' = Held(horses[1], post, deltaTime, d.input)
    /\ UNCHANGED <<gameState, countdownTimer, finalPlacements, resultsVisible,
                   inputState, canvas, track, raceTime,
                   lastTimestamp, countdownElapsed>>

\* horse.reset()
CallReset ==
    /\ horses' = << IF horses[1].kind = "ai"
                    THEN AIHorse_reset(horses[1], track)
                    ELSE reset(horses[1], track) >>
    /\ heldTime' = 0
    /\ UNCHANGED <<gameState, countdownTimer, finalPlacements, resultsVisible,
                   inputState, canvas, track, raceTime,
                   lastTimestamp, countdownElapsed>>

HorseNext == CallPlayerUpdate \/ CallAIUpdate \/ CallReset

HorseSpec == HorseInit /\ [][HorseNext]_vars

----------------------------------------------------------------------------
(* Direct calls on a track of a given length: LengthSpec.  The length of    *)
(* the track is an input of trackProgress and of getTrackPosition; it is    *)
(* drawn from the lengths below instead of being computed from the window.  *)

\* track lengths: the zero-length track, and a lap of 1000
TrackLengths == {0, 1000 * TimeScale * TimeScale}

LengthInit ==
    /\ gameState = MENU
    /\ countdownTimer = countdownTime * TimeScale
    /\ finalPlacements = <<>>
    /\ resultsVisible = FALSE
    /\ inputState = [forward |-> FALSE, boost |-> FALSE]
    /\ canvas = StepCanvas
    /\ \E length \in TrackLengths :
         track = [handleResize(canvas) EXCEPT !.totalLength = length]
    /\ horses = <<PlayerHorse(track, 3)>>
    /\ heldTime = 0
    /\ raceTime = 0
    /\ lastTimestamp = 0
    /\ countdownElapsed = 0

LengthNext == CallPlayerUpdate \/ CallReset

LengthSpec == LengthInit /\ [][LengthNext]_vars

----------------------------------------------------------------------------
(* RaceGame, raceLoop.js *)

\* horse.trackProgress as the fraction distance / track.totalLength
trackProgress(h, t) == [num |-> h.distance, den |-> t.totalLength]

\* mutant of compareProgress: (a, b) => a.progress - b.progress
compareProgress_ascending(a, b) ==
    a.progress.num * b.progress.den - b.progress.num * a.progress.den

\* the comparator (a, b) => b.progress - a.progress, for positive denominators:
\* negative when a sorts first
compareProgress(a, b) == b.progress.num * a.progress.den - a.progress.num * b.progress.den

\* mutant of insertSorted: e goes in front of the entries it ties with
insertSorted_beforeTies(s, e) ==
    LET i == CHOOSE j \in 1..(Len(s) + 1) :
                 /\ j = Len(s) + 1 \/ compareProgress(s[j], e) >= 0
                 /\ \A k \in 1..(j - 1) : compareProgress(s[k], e) < 0
    IN  SubSeq(s, 1, i - 1) \o <<e>> \o SubSeq(s, i, Len(s))

\* Array.prototype.sort is stable: e goes behind every entry that does not
\* sort after it
insertSorted(s, e) ==
    LET i == CHOOSE j \in 1..(Len(s) + 1) :
                 /\ j = Len(s) + 1 \/ compareProgress(s[j], e) > 0
                 /\ \A k \in 1..(j - 1) : compareProgress(s[k], e) <= 0
    IN  SubSeq(s, 1, i - 1) \o <<e>> \o SubSeq(s, i, Len(s))

RECURSIVE sortByProgress(_)
sortByProgress(s) ==
    IF s = <<>> THEN <<>>
    ELSE insertSorted(sortByProgress(SubSeq(s, 1, Len(s) - 1)), s[Len(s)])

\* the comparator of AIManager.getRacePlacements for the horses a and b.  No
\* horse has a finishTime (nothing assigns it), so that for two finished
\* horses a.finishTime - b.finishTime is undefined - undefined = NaN, which
\* Array.prototype.sort takes as +0.
comparePlacement(a, b, t) ==
    IF a.finished /\ b.finished THEN 0
    ELSE IF a.finished THEN -1
    ELSE IF b.finished THEN 1
    ELSE compareProgress([progress |-> trackProgress(a, t)],
                         [progress |-> trackProgress(b, t)])

\* stable insertion of the racer e into the sorted sequence s of racers
insertPlacement(s, e, hs, t) ==
    LET i == CHOOSE j \in 1..(Len(s) + 1) :
                 /\ j = Len(s) + 1 \/ comparePlacement(hs[s[j]], hs[e], t) > 0
                 /\ \A k \in 1..(j - 1) : comparePlacement(hs[s[k]], hs[e], t) <= 0
    IN  SubSeq(s, 1, i - 1) \o <<e>> \o SubSeq(s, i, Len(s))

RECURSIVE sortPlacements(_, _, _)
sortPlacements(s, hs, t) ==
    IF s = <<>> THEN <<>>
    ELSE insertPlacement(sortPlacements(SubSeq(s, 1, Len(s) - 1), hs, t),
                         s[Len(s)], hs, t)

\* AIManager.getRacePlacements(playerHorse): [...aiHorses, playerHorse]
\* sorted; a horse is named by its place in hs, the player is hs[1]
getRacePlacements(hs, t) ==
    sortPlacements([i \in 1..Len(hs) |-> IF i = Len(hs) THEN 1 ELSE i + 1], hs, t)

\* horse === this.playerHorse ? 'You' : `AI ${index}`, index counted from 0
racerName(i) == IF i = 1 THEN "You" ELSE "AI " \o ToString(i - 1)

\* mutant of computePlacements: only the horses that have finished are ranked
computePlacements_finishedOnly(allHorses, t) ==
    LET entries == [i \in 1..Len(allHorses) |->
                      [ name     |-> racerName(i),
                        progress |-> [num |-> allHorses[i].distance, den |-> t.totalLength],
                        done     |-> allHorses[i].finished ]]
        kept    == SelectSeq(entries, LAMBDA e : e.done)
    IN  [i \in 1..Len(kept) |->
           [ name |-> kept[i].name, progress |-> kept[i].progress, place |-> i ]]

\* the placements computed in RaceGame.update (the color is left out)
computePlacements(allHorses, t) ==
    LET entries == [i \in 1..Len(allHorses) |->
                      [ name     |-> racerName(i),
                        progress |-> trackProgress(allHorses[i], t) ]]
        sorted  == sortByProgress(entries)
    IN  [i \in 1..Len(sorted) |->
           [ name     |-> sorted[i].name,
             progress |-> sorted[i].progress,
             place    |-> i ]]

\* AIManager.allFinished
allFinished(hs) == \A i \in 2..Len(hs) : hs[i].finished

\* mutant of cappedDeltaTime: the frame's deltaTime is passed on as it is
cappedDeltaTime_uncapped(deltaTime) == deltaTime

\* cappedDeltaTime = Math.min(deltaTime, 0.1) of RaceGame.gameLoop
cappedDeltaTime(deltaTime) == Min(deltaTime, TimeScale \div 10)

\* the state after construction: new RaceGame(canvas), init() included, for a
\* window of one of the given sizes and count opponents
InitWith(sizes, count) ==
    /\ gameState = MENU
    /\ countdownTimer = countdownTime * TimeScale
    /\ finalPlacements = <<>>
    /\ resultsVisible = FALSE
    /\ inputState = [forward |-> FALSE, boost |-> FALSE]
    /\ canvas \in sizes
    /\ track = handleResize(canvas)
    /\ \E profiles \in [1..count -> AIProfiles] :
         horses = <<PlayerHorse(track, 3)>>
                  \o [i \in 1..count |-> AIHorse(track, aiLane(i - 1), profiles[i])]
    /\ heldTime = 0
    /\ raceTime = 0
    /\ lastTimestamp = 0
    /\ countdownElapsed = 0

Init == InitWith(CanvasSizes, AiCount)

\* mutant of afterMenu: the menu starts the countdown without the key
afterMenu_noKey(forward) == COUNTDOWN

\* gameState after update in MENU
afterMenu(forward) == IF forward THEN COUNTDOWN ELSE MENU

\* mutant of afterCountdown: the race starts one frame before the timer runs out
afterCountdown_early(timer) ==
    IF timer <= TimeScale \div 10 THEN RACING ELSE COUNTDOWN

\* gameState after update in COUNTDOWN, timer the decremented countdownTimer
afterCountdown(timer) == IF timer <= 0 THEN RACING ELSE COUNTDOWN

\* "if (this.playerHorse.hasFinishedRace() && !this.resultsScreen.visible)"
playerJustFinished(player, visible) == player.finished /\ ~visible

\* mutant of afterRacing: the race goes on until every horse has finished
afterRacing_whenAllFinished(allHorses, visible) ==
    IF allFinished(allHorses) /\ allHorses[1].finished THEN FINISHED ELSE RACING

\* gameState after update in RACING
afterRacing(allHorses, visible) ==
    IF playerJustFinished(allHorses[1], visible)
       \/ (allFinished(allHorses) /\ allHorses[1].finished)
    THEN FINISHED ELSE RACING

\* "if (getInputState().forward && this.resultsScreen.visible)" in FINISHED
restartRequested(forward, visible) == forward /\ visible

\* mutant of afterFinished: the state reset() leaves is not overwritten
afterFinished_menu(forward, visible) ==
    IF forward /\ visible THEN MENU ELSE FINISHED

\* gameState after update in FINISHED: reset() sets MENU, update then COUNTDOWN
afterFinished(forward, visible) ==
    IF restartRequested(forward, visible) THEN COUNTDOWN ELSE FINISHED

\* update, case GAME_STATE.MENU
TickMenu ==
    /\ gameState = MENU
    /\ gameState' = afterMenu(inputState.forward)
    /\ countdownElapsed' = IF gameState' = COUNTDOWN THEN 0 ELSE countdownElapsed
    /\ UNCHANGED <<countdownTimer, finalPlacements, resultsVisible, inputState,
                   canvas, track, horses, heldTime, raceTime, lastTimestamp>>

\* update, case GAME_STATE.COUNTDOWN, for a frame delta out of deltas
TickCountdownWith(deltas) ==
    /\ gameState = COUNTDOWN
    /\ \E deltaTime \in deltas :
         /\ countdownTimer' = countdownTimer - cappedDeltaTime(deltaTime)
         /\ countdownElapsed' = countdownElapsed + cappedDeltaTime(deltaTime)
         /\ gameState' = afterCountdown(countdownTimer')
    /\ UNCHANGED <<finalPlacements, resultsVisible, inputState, canvas, track,
                   horses, heldTime, raceTime, lastTimestamp>>

TickCountdown == TickCountdownWith(FrameDeltas)

\* mutant of updatesRacers: the racers are updated after the finish as well
updatesRacers_afterFinish(state) == state \in {RACING, FINISHED}

\* the case of update's switch that calls track.update, playerHorse.update
\* and aiManager.update
updatesRacers(state) == state = RACING

\* update, case GAME_STATE.RACING, for a frame delta out of deltas and
\* Math.random() outcomes out of draws
TickRacingWith(deltas, draws) ==
    /\ updatesRacers(gameState)
    /\ \E deltaTime \in deltas, random \in [2..Len(horses) -> draws] :
         LET dt        == cappedDeltaTime(deltaTime)
             player    == update(horses[1], track, dt, inputState)
             allHorses == [i \in 1..Len(horses) |->
                             IF i = 1 THEN player
                             ELSE AIHorse_update(horses[i], track, dt, random[i])]
             placed    == playerJustFinished(player, resultsVisible)
         IN  /\ raceTime + dt <= MaxRaceTime
             /\ raceTime' = raceTime + dt
             /\ horses' = allHorses
             /\ heldTime' = Held(horses[1], player, dt, inputState)
             /\ finalPlacements' = IF placed THEN computePlacements(allHorses, track)
                                   ELSE finalPlacements
             /\ resultsVisible' = (placed \/ resultsVisible)
             /\ gameState' = afterRacing(allHorses, resultsVisible)
    /\ UNCHANGED <<countdownTimer, inputState, canvas, track, lastTimestamp,
                   countdownElapsed>>

TickRacing == TickRacingWith(FrameDeltas, RandomDraws)

\* update, case GAME_STATE.FINISHED; the restart runs RaceGame.reset
TickFinished ==
    /\ gameState = FINISHED
    /\ gameState' = afterFinished(inputState.forward, resultsVisible)
    /\ IF restartRequested(inputState.forward, resultsVisible)
       THEN /\ track' = handleResize(canvas)
            /\ horses' = [i \in 1..Len(horses) |->
                            IF i = 1 THEN reset(horses[i], track')
                            ELSE AIHorse_reset(horses[i], track')]
            /\ countdownTimer' = countdownTime * TimeScale
            /\ finalPlacements' = <<>>
            /\ resultsVisible' = FALSE
            /\ heldTime' = 0
            /\ raceTime' = 0
            /\ countdownElapsed' = 0
       ELSE UNCHANGED <<countdownTimer, finalPlacements, resultsVisible, track,
                        horses, heldTime, raceTime, countdownElapsed>>
    /\ UNCHANGED <<inputState, canvas, lastTimestamp>>

\* InputHandler.handleKeyDown for a mapped key
handleKeyDown ==
    /\ \E key \in {"forward", "boost"} : inputState' = [inputState EXCEPT ![key] = TRUE]
    /\ UNCHANGED <<gameState, countdownTimer, finalPlacements, resultsVisible,
                   canvas, track, horses, heldTime, raceTime,
                   lastTimestamp, countdownElapsed>>

\* InputHandler.handleKeyUp for a mapped key
handleKeyUp ==
    /\ \E key \in {"forward", "boost"} : inputState' = [inputState EXCEPT ![key] = FALSE]
    /\ UNCHANGED <<gameState, countdownTimer, finalPlacements, resultsVisible,
                   canvas, track, horses, heldTime, raceTime,
                   lastTimestamp, countdownElapsed>>

\* InputHandler.handleBlur, and handleVisibilityChange of a hidden document
handleBlur ==
    /\ inputState' = [forward |-> FALSE, boost |-> FALSE]
    /\ UNCHANGED <<gameState, countdownTimer, finalPlacements, resultsVisible,
                   canvas, track, horses, heldTime, raceTime,
                   lastTimestamp, countdownElapsed>>

\* RaceGame.handleResize: the window takes a new size
RaceGame_handleResize ==
    /\ canvas' \in CanvasSizes
    /\ track' = handleResize(canvas')
    /\ UNCHANGED <<gameState, countdownTimer, finalPlacements, resultsVisible,
                   inputState, horses, heldTime, raceTime,
                   lastTimestamp, countdownElapsed>>

Next ==
    \/ TickMenu
    \/ TickCountdown
    \/ TickRacing
    \/ TickFinished
    \/ handleKeyDown
    \/ handleKeyUp
    \/ handleBlur
    \/ RaceGame_handleResize

Spec == Init /\ [][Next]_vars

----------------------------------------------------------------------------
(* Races of three and more racers with regular frames: PlacementSpec.       *)
(* Every frame lasts 100 ms, no opponent draws a random boost and the       *)
(* window keeps its size; the player's keys are free.                       *)

PlacementInit == InitWith(CanvasSizes, AiCount + 1)

PlacementCountdown == TickCountdownWith({1})

PlacementRacing == TickRacingWith({1}, {999})

PlacementNext ==
    \/ TickMenu
    \/ PlacementCountdown
    \/ PlacementRacing
    \/ TickFinished
    \/ handleKeyDown
    \/ handleKeyUp

PlacementSpec == PlacementInit /\ [][PlacementNext]_vars

----------------------------------------------------------------------------
(* Races followed to their end: LiveSpec.  gameLoop is called for a frame   *)
(* every 100 ms, the window keeps its size, no opponent draws a random      *)
(* boost and the keys are free.  A race is not cut off: raceTime stops      *)
(* counting at MaxRaceTime, and lastTimestamp is kept modulo FramePeriod.   *)
(* gameLoop ends by requesting the next frame, so that frames keep          *)
(* arriving: weak fairness of the step that assigns the next timestamp.     *)

FramePeriod == 2

\* "this.lastTimestamp = timestamp" for the next frame
FrameArrives == lastTimestamp' = (lastTimestamp + 1) % FramePeriod

\* gameLoop, update in MENU
LiveMenu ==
    /\ gameState = MENU
    /\ FrameArrives
    /\ gameState' = afterMenu(inputState.forward)
    /\ countdownElapsed' = IF gameState' = COUNTDOWN THEN 0 ELSE countdownElapsed
    /\ UNCHANGED <<countdownTimer, finalPlacements, resultsVisible, inputState,
                   canvas, track, horses, heldTime, raceTime>>

\* gameLoop, update in COUNTDOWN
LiveCountdown ==
    /\ gameState = COUNTDOWN
    /\ FrameArrives
    /\ countdownTimer' = countdownTimer - cappedDeltaTime(1)
    /\ countdownElapsed' = countdownElapsed + cappedDeltaTime(1)
    /\ gameState' = afterCountdown(countdownTimer')
    /\ UNCHANGED <<finalPlacements, resultsVisible, inputState, canvas, track,
                   horses, heldTime, raceTime>>

\* gameLoop, update in RACING
LiveRacing ==
    /\ updatesRacers(gameState)
    /\ FrameArrives
    /\ \E random \in [2..Len(horses) -> {999}] :
         LET dt        == cappedDeltaTime(1)
             player    == update(horses[1], track, dt, inputState)
             allHorses == [i \in 1..Len(horses) |->
                             IF i = 1 THEN player
                             ELSE AIHorse_update(horses[i], track, dt, random[i])]
             placed    == playerJustFinished(player, resultsVisible)
         IN  /\ raceTime' = Min(raceTime + dt, MaxRaceTime)
             /\ horses' = allHorses
             /\ heldTime' = Held(horses[1], player, dt, inputState)
             /\ finalPlacements' = IF placed THEN computePlacements(allHorses, track)
                                   ELSE finalPlacements
             /\ resultsVisible' = (placed \/ resultsVisible)
             /\ gameState' = afterRacing(allHorses, resultsVisible)
    /\ UNCHANGED <<countdownTimer, inputState, canvas, track, countdownElapsed>>

\* gameLoop, update in FINISHED; the restart runs RaceGame.reset
LiveFinished ==
    /\ gameState = FINISHED
    /\ FrameArrives
    /\ gameState' = afterFinished(inputState.forward, resultsVisible)
    /\ IF restartRequested(inputState.forward, resultsVisible)
       THEN /\ track' = handleResize(canvas)
            /\ horses' = [i \in 1..Len(horses) |->
                            IF i = 1 THEN reset(horses[i], track')
                            ELSE AIHorse_reset(horses[i], track')]
            /\ countdownTimer' = countdownTime * TimeScale
            /\ finalPlacements' = <<>>
            /\ resultsVisible' = FALSE
            /\ heldTime' = 0
            /\ raceTime' = 0
            /\ countdownElapsed' = 0
       ELSE UNCHANGED <<countdownTimer, finalPlacements, resultsVisible, track,
                        horses, heldTime, raceTime, countdownElapsed>>
    /\ UNCHANGED <<inputState, canvas>>

LiveNext ==
    \/ LiveMenu
    \/ LiveCountdown
    \/ LiveRacing
    \/ LiveFinished
    \/ handleKeyDown
    \/ handleKeyUp

LiveSpec == Init /\ [][LiveNext]_vars /\ WF_lastTimestamp(FrameArrives)

----------------------------------------------------------------------------
(* The race with the field the program creates: FieldSpec.  RaceGame asks   *)
(* AIManager for 5 opponents; frames are regular and no opponent draws a    *)
(* random boost, as in PlacementSpec.                                       *)

\* the count of new AIManager(this.track, 5)
AIManager_aiCount == 5

FieldInit == InitWith(CanvasSizes, AIManager_aiCount)

FieldNext ==
    \/ TickMenu
    \/ PlacementCountdown
    \/ PlacementRacing
    \/ TickFinished
    \/ handleKeyDown
    \/ handleKeyUp

FieldSpec == FieldInit /\ [][FieldNext]_vars

----------------------------------------------------------------------------
(* The frames of the game loop with their timestamps: GameLoopSpec.         *)
(* requestAnimationFrame hands gameLoop a timestamp; the specification      *)
(* lets the timestamps come in any order, so that a difference can be       *)
(* negative, zero, a frame or a long stall.  The first frame meets          *)
(* lastTimestamp = 0.                                                       *)

\* latest frame timestamp (time units)
MaxTimestamp == 12

Timestamps == 0..MaxTimestamp

\* RaceGame.gameLoop(timestamp) up to the start of the race: update in MENU
\* and in COUNTDOWN.  The timestamps are bounded, so the countdown does not
\* run out here; a timer pushed up by negative differences is bounded by
\* the same amount.
GameLoop ==
    /\ gameState \in {MENU, COUNTDOWN}
    /\ \E timestamp \in Timestamps :
         LET deltaTime == timestamp - lastTimestamp
             dt        == cappedDeltaTime(deltaTime)
         IN  /\ lastTimestamp' = timestamp
             /\ IF gameState = MENU
                THEN /\ gameState' = afterMenu(inputState.forward)
                     /\ countdownTimer' = countdownTimer
                     /\ countdownElapsed' = IF gameState' = COUNTDOWN THEN 0
                                            ELSE countdownElapsed
                ELSE /\ countdownTimer' = countdownTimer - dt
                     /\ countdownElapsed' = countdownElapsed + dt
                     /\ countdownTimer' <= countdownTime * TimeScale + MaxTimestamp
                     /\ gameState' = afterCountdown(countdownTimer')
    /\ UNCHANGED <<finalPlacements, resultsVisible, inputState, canvas, track,
                   horses, heldTime, raceTime>>

GameLoopNext ==
    \/ GameLoop
    \/ handleKeyDown
    \/ handleKeyUp
    \/ handleBlur

GameLoopSpec == Init /\ [][GameLoopNext]_vars

----------------------------------------------------------------------------
(* Track as src/public/track.js has it: PublicTrackSpec.                    *)
(* The repository holds two versions of track.js.  The game above follows   *)
(* the one with the 45% / 30% oval and trackWidth 140; this is the other,   *)
(* with the 40% / 35% oval and trackWidth 120, constructed for a window     *)
(* and resized.                                                             *)

trackWidth_public == 120

\* the fields that the constructor and handleResize of src/public/track.js
\* compute from the canvas
geometry_public(c) ==
    [ centerX      |-> (c.width * GeoScale) \div 2,
      centerY      |-> (c.height * GeoScale) \div 2,
      outerRadiusX |-> (c.width * 40 * GeoScale) \div 100,
      outerRadiusY |-> (c.height * 35 * GeoScale) \div 100,
      innerRadiusX |-> (c.width * 40 * GeoScale) \div 100 - trackWidth_public * GeoScale,
      innerRadiusY |-> (c.height * 35 * GeoScale) \div 100 - trackWidth_public * GeoScale ]

\* Track.calculateTrackLength of src/public/track.js
calculateTrackLength_public(t) ==
    RamanujanLength(t.outerRadiusX - (trackWidth_public * GeoScale) \div 2,
                    t.outerRadiusY - (trackWidth_public * GeoScale) \div 2)

\* the fields of a track, from its geometry and its length
TrackOf(geo, length) ==
    [ centerX      |-> geo.centerX,
      centerY      |-> geo.centerY,
      outerRadiusX |-> geo.outerRadiusX,
      outerRadiusY |-> geo.outerRadiusY,
      innerRadiusX |-> geo.innerRadiusX,
      innerRadiusY |-> geo.innerRadiusY,
      totalLength  |-> length ]

\* new Track(canvas) of src/public/track.js
Track_public(c) ==
    TrackOf(geometry_public(c), calculateTrackLength_public(geometry_public(c)))

\* Track.handleResize(canvas) of src/public/track.js: totalLength is not
\* assigned
handleResize_public(t, c) == TrackOf(geometry_public(c), t.totalLength)

\* sizes (pixels) of the window
WindowSizes == [width : {800, 1024, 1280, 1920}, height : {600, 768, 800, 1080}]

PublicTrackInit ==
    /\ gameState = MENU
    /\ countdownTimer = countdownTime * TimeScale
    /\ finalPlacements = <<>>
    /\ resultsVisible = FALSE
    /\ inputState = [forward |-> FALSE, boost |-> FALSE]
    /\ canvas \in WindowSizes
    /\ track = Track_public(canvas)
    /\ horses = <<>>
    /\ heldTime = 0
    /\ raceTime = 0
    /\ lastTimestamp = 0
    /\ countdownElapsed = 0

\* the window takes a new size and RaceGame.handleResize passes the canvas
\* to track.handleResize
PublicTrackResize ==
    /\ canvas' \in WindowSizes
    /\ track' = handleResize_public(track, canvas')
    /\ UNCHANGED <<gameState, countdownTimer, finalPlacements, resultsVisible,
                   inputState, horses, heldTime, raceTime, lastTimestamp,
                   countdownElapsed>>

PublicTrackNext == PublicTrackResize

PublicTrackSpec == PublicTrackInit /\ [][PublicTrackNext]_vars

----------------------------------------------------------------------------
(* Windows of any size, small ones included: TrackSizeSpec.  The game is    *)
(* constructed for a window and the window is resized.                      *)

\* the sides of the window are multiples of SideStep pixels, up to
\* MaxSide * SideStep
SideStep == 40
MaxSide  == 10

WindowSides == {SideStep * i : i \in 0..MaxSide}

AnySizes == [width : WindowSides, height : WindowSides]

TrackSizeInit == InitWith(AnySizes, AiCount)

\* RaceGame.handleResize, for a window of any size
TrackSizeResize ==
    /\ canvas' \in AnySizes
    /\ track' = handleResize(canvas')
    /\ UNCHANGED <<gameState, countdownTimer, finalPlacements, resultsVisible,
                   inputState, horses, heldTime, raceTime, lastTimestamp,
                   countdownElapsed>>

TrackSizeNext == TrackSizeResize

TrackSizeSpec == TrackSizeInit /\ [][TrackSizeNext]_vars

----------------------------------------------------------------------------
(* Properties *)

\* the result of one update call on horse h: an opponent decides its own
\* input (random is its Math.random() outcome), the player gets input
Updated(h, deltaTime, input, random) ==
    IF h.kind = "ai"
    THEN AIHorse_update(h, track, deltaTime, random)
    ELSE update(h, track, deltaTime, input)

\* C1 (Spec): in the RACING tick in which the player's finished flag goes from
\* false to true, the tick ends with gameState = FINISHED and finalPlacements
\* ranking every racer, the player and each opponent, finished or not.
C1_PlayerFinishLocksResult ==
    [][ (gameState = RACING /\ ~horses[1].finished /\ horses'[1].finished)
        => /\ gameState' = FINISHED
           /\ Len(finalPlacements') = Len(horses')
           /\ { finalPlacements'[i].name : i \in 1..Len(finalPlacements') }
                = { racerName(i) : i \in 1..Len(horses') } ]_vars

\* the player has finished ahead of an opponent that is still running, and
\* the result is there
C1_Witness ==
    /\ gameState = FINISHED
    /\ horses[1].finished
    /\ \E i \in 2..Len(horses) : ~horses[i].finished
    /\ Len(finalPlacements) = Len(horses)

\* the edges of the state machine, observed at tick boundaries
GameEdges ==
    { <<LOADING, MENU>>, <<MENU, COUNTDOWN>>, <<COUNTDOWN, RACING>>,
      <<RACING, FINISHED>>, <<FINISHED, COUNTDOWN>> }

\* C2 (Spec): gameState changes only along LOADING->MENU, MENU->COUNTDOWN,
\* COUNTDOWN->RACING, RACING->FINISHED and FINISHED->COUNTDOWN; no edge leads
\* back to MENU, so MENU is not seen again once a race has left it.
C2_StateEdges ==
    [][ gameState' # gameState => <<gameState, gameState'>> \in GameEdges ]_vars

\* a race has gone from MENU to FINISHED and the restart is requested
C2_Witness ==
    /\ gameState = FINISHED
    /\ restartRequested(inputState.forward, resultsVisible)

\* a.progress >= b.progress
ProgressGeq(a, b) == a.progress.num * b.progress.den >= b.progress.num * a.progress.den

\* three racers at progress 1.02, 1.00 and 0.95 of a lap of length 100
ExampleRacers == << [distance |-> 102], [distance |-> 100], [distance |-> 95] >>

\* C3 (PlacementSpec): the placement list is a permutation of all N racers
\* with their progress at the moment of computation, sorted by descending
\* progress; the places are 1..N in order, and place 1 has the maximum
\* progress.  Progress 1.02, 1.00, 0.95 gives places 1, 2, 3 in that order.
C3_Placements ==
    /\ gameState = FINISHED =>
         LET pl == finalPlacements
             n  == Len(horses)
         IN  /\ Len(pl) = n
             /\ \A i \in 1..n : \E j \in 1..n :
                    /\ pl[j].name = racerName(i)
                    /\ pl[j].progress = trackProgress(horses[i], track)
             /\ \A i \in 1..n : pl[i].place = i
             /\ \A i, j \in 1..n : i < j => ProgressGeq(pl[i], pl[j])
             /\ \A i \in 1..n : ProgressGeq(pl[1], pl[i])
    /\ LET pl == computePlacements(ExampleRacers, [totalLength |-> 100])
       IN  /\ [i \in 1..3 |-> pl[i].name] = <<"You", "AI 1", "AI 2">>
           /\ [i \in 1..3 |-> pl[i].place] = <<1, 2, 3>>

\* three or more racers are placed, all at different progress, in the
\* reverse of the order they are enumerated in: the player is last
C3_Witness ==
    /\ gameState = FINISHED
    /\ Len(finalPlacements) >= 3
    /\ finalPlacements[1].name = racerName(Len(horses))
    /\ finalPlacements[Len(finalPlacements)].name = "You"
    /\ \A i \in 1..(Len(finalPlacements) - 1) :
         ~ProgressGeq(finalPlacements[i + 1], finalPlacements[i])

\* C4 (HorseSpec): after any sequence of update and reset calls, with any
\* input and any deltaTime >= 0, speed >= 0 and 0 <= stamina <= maxStamina.
C4_SpeedStaminaRange ==
    \A i \in 1..Len(horses) :
        /\ horses[i].speed >= 0
        /\ horses[i].stamina >= 0
        /\ horses[i].stamina <= horses[i].maxStamina * TimeScale

\* a horse that has run, has boosted its stamina away and has come to rest
C4_Witness ==
    /\ horses[1].distance > 0
    /\ horses[1].stamina = 0
    /\ horses[1].speed = 0

\* C5 (HorseSpec): once a racer's finished flag is true, an update call with
\* any input and any deltaTime leaves its distance, finished flag, speed,
\* stamina and position as they are (only reset clears the flag).
C5_FinishLatch ==
    \A i \in 1..Len(horses) :
        horses[i].finished =>
            \A deltaTime \in StepDeltas, input \in Intents, random \in RandomDraws :
                LET post == Updated(horses[i], deltaTime, input, random)
                IN  /\ post.finished
                    /\ post.distance = horses[i].distance
                    /\ post.speed = horses[i].speed
                    /\ post.stamina = horses[i].stamina
                    /\ post.pos = horses[i].pos

\* a racer has crossed the finish distance at speed, with stamina spent
C5_Witness ==
    /\ horses[1].finished
    /\ horses[1].distance >= track.totalLength
    /\ horses[1].speed > 0
    /\ horses[1].stamina < horses[1].maxStamina * TimeScale

\* C6 (HorseSpec): an update call with any input and any deltaTime >= 0 never
\* decreases a racer's distance.
C6_DistanceMonotone ==
    \A i \in 1..Len(horses) :
        \A deltaTime \in StepDeltas, input \in Intents, random \in RandomDraws :
            Updated(horses[i], deltaTime, input, random).distance >= horses[i].distance

\* a racer on its way: it has covered distance and is still moving
C6_Witness ==
    /\ ~horses[1].finished
    /\ horses[1].distance > 0
    /\ horses[1].speed > 0

\* the target max speed of a step
TargetMaxSpeed(h, input) ==
    IF input.boost /\ h.stamina > 0 THEN h.boostMaxSpeed ELSE h.maxSpeed

\* C7 (HorseSpec): after an update with forward = true, speed is at most the
\* target max speed of the step: boostMaxSpeed iff boost is held and stamina
\* is positive at the start, maxSpeed otherwise; for any deltaTime, also when
\* the speed before was above maxSpeed.
C7_SpeedCap ==
    \A i \in 1..Len(horses) :
        \A deltaTime \in StepDeltas, input \in Intents :
            input.forward =>
                /\ handleInput(horses[i], deltaTime, input).speed
                      <= TargetMaxSpeed(horses[i], input) * TimeScale
                /\ ~horses[i].finished =>
                      update(horses[i], track, deltaTime, input).speed
                         <= TargetMaxSpeed(horses[i], input) * TimeScale

\* a running racer at its boost speed, with stamina left
C7_Witness ==
    /\ ~horses[1].finished
    /\ horses[1].speed = horses[1].boostMaxSpeed * TimeScale
    /\ horses[1].stamina > 0

\* C8 (HorseSpec): in an update of an unfinished racer without boost, stamina
\* grows by exactly min(staminaRecoveryRate * deltaTime, maxStamina - stamina),
\* the same with and without forward; with boost it does not grow.
C8_RecoveryOnce ==
    \A i \in 1..Len(horses) :
        ~horses[i].finished =>
            \A deltaTime \in StepDeltas, input \in Intents :
                LET post == update(horses[i], track, deltaTime, input)
                IN  IF input.boost
                    THEN post.stamina <= horses[i].stamina
                    ELSE post.stamina - horses[i].stamina
                           = Min(horses[i].staminaRecoveryRate * deltaTime,
                                 horses[i].maxStamina * TimeScale - horses[i].stamina)

\* C9 (HorseSpec): with forward and boost held in every update since stamina
\* was full (maxStamina 100, drain 25 per second), stamina is 100 minus 25
\* per second held, 0 from 4 s on and never negative; an update that starts
\* with stamina 0 and boost still held ends with speed <= maxSpeed and
\* stamina 0.
C9_BoostDrain ==
    LET h == horses[1]
    IN  /\ DrainTime(h) = 4 * TimeScale
        /\ heldTime >= 0 =>
              h.stamina = Max(0, h.maxStamina * TimeScale - h.staminaDrainRate * heldTime)
        /\ (h.stamina = 0 /\ ~h.finished) =>
              \A deltaTime \in StepDeltas :
                  LET post == update(h, track, deltaTime, [forward |-> TRUE, boost |-> TRUE])
                  IN  /\ post.speed <= h.maxSpeed * TimeScale
                      /\ post.stamina = 0

\* forward and boost were held for 4 s and more: stamina is gone and the
\* speed is back at maxSpeed
C9_Witness ==
    /\ ~horses[1].finished
    /\ heldTime = DrainTime(horses[1])
    /\ horses[1].stamina = 0
    /\ horses[1].speed = horses[1].maxSpeed * TimeScale

\* h after n runs of handleInput with forward = false, boost = false
RECURSIVE Coast(_, _, _)
Coast(h, deltaTime, n) ==
    IF n = 0 THEN h
    ELSE handleInput(Coast(h, deltaTime, n - 1), deltaTime,
                     [forward |-> FALSE, boost |-> FALSE])

\* h after n update calls with forward = false, boost = false
RECURSIVE CoastUpdate(_, _, _)
CoastUpdate(h, deltaTime, n) ==
    IF n = 0 THEN h
    ELSE update(CoastUpdate(h, deltaTime, n - 1), track, deltaTime,
                [forward |-> FALSE, boost |-> FALSE])

\* ceil(speed / (deceleration * deltaTime))
CoastTicks(h, deltaTime) ==
    (h.speed + h.deceleration * deltaTime - 1) \div (h.deceleration * deltaTime)

\* C10 (HorseSpec): for an unfinished racer at any speed, repeated updates
\* with forward = false, boost = false and a fixed deltaTime > 0 bring the
\* speed to exactly 0 within ceil(speed / (deceleration * deltaTime)) ticks,
\* never below 0, and it then stays 0.  The updates are those of a racer that
\* is still unfinished: a finished racer's update returns before handleInput.
C10_CoastToZero ==
    \A i \in 1..Len(horses) :
        ~horses[i].finished =>
            \A deltaTime \in StepDeltas \ {0} :
                LET n == CoastTicks(horses[i], deltaTime)
                IN  /\ Coast(horses[i], deltaTime, n).speed = 0
                    /\ Coast(horses[i], deltaTime, n + 1).speed = 0
                    /\ \A k \in 0..n :
                          /\ Coast(horses[i], deltaTime, k).speed >= 0
                          /\ ~CoastUpdate(horses[i], deltaTime, k).finished =>
                                CoastUpdate(horses[i], deltaTime, k).speed
                                   = Max(0, horses[i].speed - k * horses[i].deceleration * deltaTime)

\* a racer that has run and has come to rest before the finish
C10_Witness ==
    /\ ~horses[1].finished
    /\ horses[1].distance > 0
    /\ horses[1].speed = 0
    /\ horses[1].stamina = horses[1].maxStamina * TimeScale

\* a racer as reset leaves it
AtStart(h) ==
    /\ h.distance = 0
    /\ h.speed = 0
    /\ h.stamina = h.maxStamina * TimeScale
    /\ ~h.finished

\* an opponent's boost state as AIHorse.reset leaves it
BoostCleared(h) ==
    /\ ~h.isBoosting
    /\ h.boostTimer = 0
    /\ \A k \in 1..Len(h.usedStrategicBoosts) : ~h.usedStrategicBoosts[k]

\* a step of the game that is a tick: no key event and no resize
IsTick == inputState' = inputState /\ canvas' = canvas

\* C11 (Spec): a tick that observes forward in FINISHED with the results view
\* showing ends in COUNTDOWN with every racer at distance 0, speed 0, full
\* stamina and finished = false, every opponent with isBoosting = false,
\* boostTimer = 0 and no strategic checkpoint used, finalPlacements empty,
\* the results view hidden and countdownTimer at its full value.
C11_RestartResetsAll ==
    [][ (gameState = FINISHED /\ inputState.forward /\ resultsVisible /\ IsTick)
        => /\ gameState' = COUNTDOWN
           /\ \A i \in 1..Len(horses') : AtStart(horses'[i])
           /\ \A i \in 2..Len(horses') : BoostCleared(horses'[i])
           /\ Len(horses') = Len(horses)
           /\ finalPlacements' = <<>>
           /\ ~resultsVisible'
           /\ countdownTimer' = countdownTime * TimeScale ]_vars

\* the restart is requested after a race in which an opponent used a
\* strategic checkpoint and is still inside its boost window
C11_Witness ==
    /\ gameState = FINISHED
    /\ restartRequested(inputState.forward, resultsVisible)
    /\ finalPlacements # <<>>
    /\ \E i \in 2..Len(horses) :
          /\ horses[i].isBoosting
          /\ horses[i].boostTimer > 0
          /\ horses[i].usedStrategicBoosts[1]
          /\ horses[i].distance > 0
          /\ horses[i].stamina < horses[i].maxStamina * TimeScale

\* the fields of a racer that the constructors set and nothing assigns later
ProfileOf(h) ==
    [ laneNumber          |-> h.laneNumber,
      maxSpeed            |-> h.maxSpeed,
      boostMaxSpeed       |-> h.boostMaxSpeed,
      acceleration        |-> h.acceleration,
      deceleration        |-> h.deceleration,
      maxStamina          |-> h.maxStamina,
      staminaDrainRate    |-> h.staminaDrainRate,
      staminaRecoveryRate |-> h.staminaRecoveryRate,
      boostProbability    |-> h.boostProbability,
      boostDuration       |-> h.boostDuration,
      strategicBoostPoints |-> h.strategicBoostPoints,
      conserveStaminaThreshold |-> h.conserveStaminaThreshold ]

\* C12 (Spec): every step of the game, ticks and race restarts included,
\* leaves each opponent's maxSpeed, boostMaxSpeed, acceleration,
\* boostProbability, boostDuration, strategicBoostPoints,
\* conserveStaminaThreshold and lane as they were created; of an opponent's
\* state only distance (with the canvas position computed from it), speed,
\* stamina, finished, isBoosting, boostTimer and usedStrategicBoosts change.
C12_ProfileStable ==
    [][ /\ Len(horses') = Len(horses)
        /\ \A i \in 2..Len(horses) :
              /\ horses'[i].kind = "ai"
              /\ ProfileOf(horses'[i]) = ProfileOf(horses[i]) ]_vars

\* an opponent in a race with every one of its seven changing fields away
\* from the value it was created with
C12_Witness ==
    /\ gameState = RACING
    /\ \E i \in 2..Len(horses) :
          /\ horses[i].distance > 0
          /\ horses[i].speed > 0
          /\ horses[i].stamina < horses[i].maxStamina * TimeScale
          /\ horses[i].finished
          /\ horses[i].isBoosting
          /\ horses[i].boostTimer > 0
          /\ horses[i].usedStrategicBoosts[1]

\* C13 (GameLoopSpec): for every sequence of frame timestamps, the first
\* frame (lastTimestamp = 0) and a long stalled frame included, the dt that
\* gameLoop passes to update is at most 0.1 s, and it is >= 0 whenever the
\* timestamp is not below the one before.  The dt of a frame is what the
\* countdown loses in it; it is also computed for every next timestamp.
C13_DeltaCapped ==
    [][ /\ gameState = COUNTDOWN =>
              /\ countdownTimer - countdownTimer' <= TimeScale \div 10
              /\ lastTimestamp' >= lastTimestamp =>
                    countdownTimer - countdownTimer' >= 0
        /\ \A timestamp \in Timestamps :
              /\ cappedDeltaTime(timestamp - lastTimestamp) <= TimeScale \div 10
              /\ timestamp >= lastTimestamp =>
                    cappedDeltaTime(timestamp - lastTimestamp) >= 0 ]_vars

\* the countdown's first counted frame came after the longest stall, and it
\* took 0.1 s from the timer
C13_Witness ==
    /\ gameState = COUNTDOWN
    /\ lastTimestamp = MaxTimestamp
    /\ countdownTimer = countdownTime * TimeScale - TimeScale \div 10

\* C14 (PublicTrackSpec): after every Track.handleResize(canvas) the derived
\* geometry is that of the new canvas: center and outer radii match the
\* canvas, innerRadius = outerRadius - trackWidth on both axes, and
\* totalLength is calculateTrackLength() of the current radii, the value a
\* newly constructed Track for that canvas has; no state has new radii with
\* a stale totalLength.
C14_ResizeConsistent ==
    /\ track.centerX = geometry_public(canvas).centerX
    /\ track.centerY = geometry_public(canvas).centerY
    /\ track.outerRadiusX = geometry_public(canvas).outerRadiusX
    /\ track.outerRadiusY = geometry_public(canvas).outerRadiusY
    /\ track.innerRadiusX = track.outerRadiusX - trackWidth_public * GeoScale
    /\ track.innerRadiusY = track.outerRadiusY - trackWidth_public * GeoScale
    /\ track.totalLength = calculateTrackLength_public(track)
    /\ track.totalLength = Track_public(canvas).totalLength

\* two progress fractions are the same number
SameProgress(p, q) == p.num * q.den = q.num * p.den

\* C15 (Spec): a viewport resize that arrives between two ticks during
\* RACING leaves every racer's distance, progress (distance / totalLength)
\* and finished flag as they are, and leaves the distance a racer has to
\* cover to finish the race, totalLength - distance, as it is.
C15_ResizeKeepsProgress ==
    [][ (gameState = RACING /\ canvas' # canvas)
        => \A i \in 1..Len(horses) :
              /\ horses'[i].distance = horses[i].distance
              /\ horses'[i].finished = horses[i].finished
              /\ SameProgress(trackProgress(horses'[i], track'),
                              trackProgress(horses[i], track))
              /\ track'.totalLength - horses'[i].distance
                    = track.totalLength - horses[i].distance ]_vars

\* the fraction is the finite number 0
IsZero(q) == q.den # 0 /\ q.num = 0

C17_LanesInRange ==
    \A i \in 1..Len(horses) : horses[i].laneNumber \in 0..(laneCount - 1)

\* the position in the enumeration [player, AI 1, ..., AI 5] of a racer
racerIndex(name) == CHOOSE i \in 1..Len(horses) : racerName(i) = name

\* C18 (FieldSpec): racers with exactly equal progress at the computation of
\* the placements are placed in the order of the enumeration [player, AI 1,
\* ..., AI 5]: the one enumerated earlier gets the smaller place, so the
\* player wins every tie it is part of.
C18_TiesKeepOrder ==
    gameState = FINISHED =>
        LET pl == finalPlacements
        IN  /\ \A a, b \in 1..Len(pl) :
                  (SameProgress(pl[a].progress, pl[b].progress)
                     /\ racerIndex(pl[a].name) < racerIndex(pl[b].name))
                  => pl[a].place < pl[b].place
            /\ \A a, b \in 1..Len(pl) :
                  (pl[a].name = "You" /\ a # b
                     /\ SameProgress(pl[a].progress, pl[b].progress))
                  => pl[a].place < pl[b].place

\* the player has tied with two opponents and is placed ahead of both, and
\* two more opponents have tied with each other at another progress
C18_Witness ==
    /\ gameState = FINISHED
    /\ Len(finalPlacements) = AIManager_aiCount + 1
    /\ \E a, b, c \in 1..Len(finalPlacements) :
          /\ finalPlacements[a].name = "You"
          /\ a < b /\ b < c
          /\ SameProgress(finalPlacements[a].progress, finalPlacements[b].progress)
          /\ SameProgress(finalPlacements[a].progress, finalPlacements[c].progress)
    /\ \E a, b, p \in 1..Len(finalPlacements) :
          /\ a < b
          /\ finalPlacements[p].name = "You"
          /\ SameProgress(finalPlacements[a].progress, finalPlacements[b].progress)
          /\ ~SameProgress(finalPlacements[a].progress, finalPlacements[p].progress)

\* opponent h after n update calls with the same deltaTime and the same
\* Math.random() outcome
RECURSIVE AfterCalls(_, _, _, _)
AfterCalls(h, deltaTime, random, n) ==
    IF n = 0 THEN h
    ELSE AIHorse_update(AfterCalls(h, deltaTime, random, n - 1), track,
                        deltaTime, random)

C20_ConserveNoNewBoost ==
    \A i \in 1..Len(horses) :
        horses[i].kind = "ai" =>
            \A deltaTime \in StepDeltas, random \in RandomDraws :
                LET h  == horses[i]
                    h1 == tickBoostTimer(h, deltaTime)
                    d  == determineInputState(h, track, deltaTime, random)
                IN  ( /\ ~h1.isBoosting
                      /\ h.stamina < h.conserveStaminaThreshold * TimeScale
                      /\ ProgressAtMost(h, track, 85) )
                    => /\ ~d.horse.isBoosting
                       /\ d.horse.boostTimer = h1.boostTimer
                       /\ d.horse.usedStrategicBoosts = h.usedStrategicBoosts
                       /\ d.horse = h1
                       /\ d.input = [forward |-> TRUE, boost |-> FALSE]

\* an opponent without a boost window and below its stamina threshold, at a
\* strategic checkpoint it has not used and with the stamina the checkpoint
\* and the random boost ask for
C20_Witness ==
    /\ horses[1].kind = "ai"
    /\ ~horses[1].finished
    /\ ~horses[1].isBoosting
    /\ horses[1].stamina < horses[1].conserveStaminaThreshold * TimeScale
    /\ horses[1].stamina > 40 * TimeScale
    /\ ProgressAtMost(horses[1], track, 85)
    /\ strategicCandidates(horses[1], track) # {}

\* progress of h is inside the window of its strategic checkpoint i
InCheckpointWindow(h, i) ==
    /\ ProgressAtLeast(h, track, h.strategicBoostPoints[i])
    /\ ProgressAtMost(h, track, h.strategicBoostPoints[i] + 10)

\* C21 (HorseSpec): each strategic checkpoint of an opponent fires at most
\* once per race.  usedStrategicBoosts[i] goes from false to true only in a
\* call where progress is within [checkpoint_i, checkpoint_i + 0.1] and
\* stamina > 40; that call sets boostTimer to the full boostDuration and
\* returns boost = true; a used checkpoint does not fire again, and the flag
\* stays true until the next reset.
C21_CheckpointOnce ==
    [][ (horses[1].kind = "ai") =>
          LET h == horses[1]
          IN  /\ \A deltaTime \in StepDeltas, random \in RandomDraws :
                    LET d == determineInputState(h, track, deltaTime, random)
                    IN  \A i \in 1..Len(h.strategicBoostPoints) :
                          /\ (~h.usedStrategicBoosts[i] /\ d.horse.usedStrategicBoosts[i])
                                => /\ InCheckpointWindow(h, i)
                                   /\ h.stamina > 40 * TimeScale
                                   /\ d.horse.boostTimer = h.boostDuration * TimeScale
                                   /\ d.horse.isBoosting
                                   /\ d.input.boost
                          /\ h.usedStrategicBoosts[i]
                                => /\ d.horse.usedStrategicBoosts[i]
                                   /\ AIHorse_update(h, track, deltaTime, random)
                                         .usedStrategicBoosts[i]
                                   /\ ( (\A k \in 1..Len(h.strategicBoostPoints) :
                                            h.usedStrategicBoosts[k])
                                        /\ ~randomBoostDraw(h, deltaTime, random) )
                                      => d.horse = tickBoostTimer(h, deltaTime)
              /\ \A i \in 1..Len(h.strategicBoostPoints) :
                    /\ (~h.usedStrategicBoosts[i] /\ horses'[1].usedStrategicBoosts[i])
                          => /\ InCheckpointWindow(h, i)
                             /\ h.stamina > 40 * TimeScale
                             /\ horses'[1].boostTimer = h.boostDuration * TimeScale
                    /\ (h.usedStrategicBoosts[i] /\ ~horses'[1].usedStrategicBoosts[i])
                          => horses'[1] = AIHorse_reset(h, track) ]_vars

\* an opponent whose first checkpoint has just fired: the full window is
\* ahead, and the opponent is inside the checkpoint's stretch with stamina
\* above 40 and above its threshold, where an unused checkpoint fires
C21_Witness ==
    /\ horses[1].kind = "ai"
    /\ ~horses[1].finished
    /\ horses[1].usedStrategicBoosts[1]
    /\ ~horses[1].usedStrategicBoosts[2]
    /\ horses[1].isBoosting
    /\ horses[1].boostTimer = horses[1].boostDuration * TimeScale
    /\ InCheckpointWindow(horses[1], 1)
    /\ horses[1].stamina > 40 * TimeScale
    /\ horses[1].stamina >= horses[1].conserveStaminaThreshold * TimeScale

\* C22 (HorseSpec): the boost rules of an opponent are first-match-wins: in a
\* determineInputState call where the active-window rule applies (isBoosting
\* with boostTimer still > 0 after the call's decrement), neither the
\* strategic-checkpoint rule nor the random rule fires: no checkpoint is
\* marked used and boostTimer is not set to boostDuration in that call.
C22_FirstMatchWins ==
    \A i \in 1..Len(horses) :
        (horses[i].kind = "ai" /\ horses[i].isBoosting) =>
            \A deltaTime \in StepDeltas, random \in RandomDraws :
                LET h  == horses[i]
                    h1 == tickBoostTimer(h, deltaTime)
                    d  == determineInputState(h, track, deltaTime, random)
                IN  (h1.isBoosting /\ h1.boostTimer > 0)
                    => /\ d.horse.usedStrategicBoosts = h.usedStrategicBoosts
                       /\ d.horse.boostTimer = h1.boostTimer

\* C23 (HorseSpec): whenever an opponent's progress is > 0.85 and its stamina
\* > 20 at a determineInputState call, the returned intent has forward = true
\* and boost = true, whatever its boost timer, its checkpoints and the
\* random draw.
C23_FinalStretchBoost ==
    \A i \in 1..Len(horses) :
        ( /\ horses[i].kind = "ai"
          /\ ProgressAbove(horses[i], track, 85)
          /\ horses[i].stamina > 20 * TimeScale ) =>
            \A deltaTime \in StepDeltas, random \in RandomDraws :
                determineInputState(horses[i], track, deltaTime, random).input
                    = [forward |-> TRUE, boost |-> TRUE]

\* an opponent in the final stretch, not finished and without a window, with
\* stamina above 20 and too low for every other rule
C23_Witness ==
    /\ horses[1].kind = "ai"
    /\ ~horses[1].finished
    /\ ~horses[1].isBoosting
    /\ ProgressAbove(horses[1], track, 85)
    /\ horses[1].stamina > 20 * TimeScale
    /\ horses[1].stamina <= 30 * TimeScale
    /\ horses[1].stamina < horses[1].conserveStaminaThreshold * TimeScale

\* C24 (HorseSpec): the random boost, a nondeterministic choice, starts a
\* window only in a call where the opponent is not already boosting (its
\* window, if it had one, has run out by this call's decrement) and stamina
\* > 30; when it starts, isBoosting = true, boostTimer = boostDuration and
\* the returned intent has boost = true.  A call changes the boost state
\* beyond the timer's decrement without marking a checkpoint exactly when
\* the random boost starts.
C24_RandomBoost ==
    \A i \in 1..Len(horses) :
        horses[i].kind = "ai" =>
            \A deltaTime \in StepDeltas, random \in RandomDraws :
                LET h  == horses[i]
                    h1 == tickBoostTimer(h, deltaTime)
                    d  == determineInputState(h, track, deltaTime, random)
                IN  (d.horse # h1
                       /\ d.horse.usedStrategicBoosts = h.usedStrategicBoosts)
                    => /\ randomBoostDraw(h, deltaTime, random)
                       /\ ~h1.isBoosting
                       /\ h.stamina > 30 * TimeScale
                       /\ d.horse.isBoosting
                       /\ d.horse.boostTimer = h.boostDuration * TimeScale
                       /\ d.input.boost

\* an opponent inside a window that a random boost started: no checkpoint
\* is used, and the stamina has gone below 30 since
C24_Witness ==
    /\ horses[1].kind = "ai"
    /\ ~horses[1].finished
    /\ horses[1].isBoosting
    /\ horses[1].boostTimer > 0
    /\ horses[1].usedStrategicBoosts = <<FALSE, FALSE>>
    /\ horses[1].stamina < 30 * TimeScale
    /\ horses[1].stamina > 0

\* the full countdown, in time units
fullCountdown == countdownTime * TimeScale

\* C25 (Spec): every step that enters COUNTDOWN, from MENU or by a restart
\* from FINISHED, leaves countdownTimer at the full countdown time; RACING is
\* entered only from COUNTDOWN, and a step taken in COUNTDOWN ends in RACING
\* exactly when the clamped deltaTime accumulated since COUNTDOWN was entered
\* has reached the full countdown time, which it had not reached before.
C25_CountdownLength ==
    [][ /\ (gameState # COUNTDOWN /\ gameState' = COUNTDOWN
              => /\ gameState \in {MENU, FINISHED}
                 /\ countdownTimer' = fullCountdown
                 /\ countdownElapsed' = 0)
        /\ (gameState # RACING /\ gameState' = RACING => gameState = COUNTDOWN)
        /\ (gameState = COUNTDOWN
              => /\ countdownElapsed < fullCountdown
                 /\ gameState' \in {COUNTDOWN, RACING}
                 /\ gameState' = RACING <=> countdownElapsed' >= fullCountdown)
      ]_vars

\* the race has just started, after a countdown that took the full time
C25_Witness ==
    /\ gameState = RACING
    /\ raceTime = 0
    /\ countdownElapsed >= fullCountdown
    /\ countdownTimer <= 0

\* C26 (Spec): a step from MENU ends in COUNTDOWN when it is a tick and the
\* forward intent the handler holds is true, and in MENU otherwise; a step
\* from FINISHED ends in COUNTDOWN when it is a tick, forward is true and the
\* results view is visible, and in FINISHED otherwise.  No step with forward
\* false leaves MENU or FINISHED.
C26_ForwardLeaves ==
    [][ /\ (gameState = MENU
              => gameState' = IF IsTick /\ inputState.forward
                              THEN COUNTDOWN ELSE MENU)
        /\ (gameState = FINISHED
              => gameState' = IF IsTick /\ inputState.forward /\ resultsVisible
                              THEN COUNTDOWN ELSE FINISHED)
      ]_vars

\* a countdown has just been entered by a tick that read forward = true
C26_Witness ==
    /\ gameState = COUNTDOWN
    /\ countdownElapsed = 0
    /\ countdownTimer = fullCountdown
    /\ inputState.forward

\* C27 (TrackSizeSpec): for every window size, the totalLength computed at
\* the construction of the track and by the recomputation on resize is a
\* finite number greater than 0.
C27_LengthPositive ==
    /\ track.totalLength # NaN
    /\ track.totalLength > 0

\* the place of the racer i in the sequence p of racers
placeOf(p, i) == CHOOSE k \in 1..Len(p) : p[k] = i

\* getRacePlacements returns every horse once, the finished ones before the
\* unfinished ones and the unfinished ones by descending progress
PlacementsOrdered(hs, t) ==
    LET p == getRacePlacements(hs, t)
    IN  /\ Len(p) = Len(hs)
        /\ \A i \in 1..Len(hs) : \E k \in 1..Len(p) : p[k] = i
        /\ \A k \in 1..Len(p) : \A l \in (k + 1)..Len(p) :
              /\ hs[p[l]].finished => hs[p[k]].finished
              /\ (~hs[p[k]].finished /\ ~hs[p[l]].finished)
                    => hs[p[k]].distance >= hs[p[l]].distance

\* C28 (PlacementSpec): in every state getRacePlacements returns all horses,
\* the finished ones before the unfinished ones and the unfinished ones by
\* descending progress; and a horse that had finished before the tick in
\* which another horse finishes precedes that horse (earlier finish first).
C28_FinishOrder ==
    [][ /\ PlacementsOrdered(horses, track)
        /\ PlacementsOrdered(horses', track')
        /\ \A a, b \in 1..Len(horses) :
              (horses[a].finished /\ ~horses[b].finished /\ horses'[b].finished)
                 => placeOf(getRacePlacements(horses', track'), a)
                      < placeOf(getRacePlacements(horses', track'), b)
      ]_vars

\* finalPlacements has exactly one entry for each racer
OneEntryPerRacer ==
    /\ Len(finalPlacements) = Len(horses)
    /\ \A i \in 1..Len(horses) :
          Cardinality({k \in 1..Len(finalPlacements) :
                         finalPlacements[k].name = racerName(i)}) = 1

\* what holds between two ticks
ResultsConsistent ==
    /\ gameState = FINISHED
          => horses[1].finished /\ resultsVisible /\ OneEntryPerRacer
    /\ gameState # FINISHED
          => finalPlacements = <<>> /\ ~resultsVisible

\* C29 (Spec): before and after every step, FINISHED implies that the player
\* has finished, the results view is visible and finalPlacements has one
\* entry per racer, and any other state implies that finalPlacements is
\* empty and the results view hidden; finalPlacements is assigned by the
\* step that enters FINISHED from RACING, emptied by the step of the restart
\* and changed by no other step.
C29_ResultsConsistent ==
    [][ /\ ResultsConsistent
        /\ ResultsConsistent'
        /\ (gameState # FINISHED /\ gameState' = FINISHED)
              => gameState = RACING /\ finalPlacements = <<>>
                   /\ finalPlacements' # <<>>
        /\ finalPlacements' # finalPlacements
              => \/ gameState = RACING /\ gameState' = FINISHED
                 \/ gameState = FINISHED /\ gameState' = COUNTDOWN
                      /\ finalPlacements' = <<>>
      ]_vars

\* the race is over with an opponent still on its way and the placements
\* of every racer on the results view
C29_Witness ==
    /\ gameState = FINISHED
    /\ resultsVisible
    /\ OneEntryPerRacer
    /\ \E i \in 2..Len(horses) : ~horses[i].finished

\* the step leaves the racer i as it is: distance, speed, stamina and
\* finished flag, and for an opponent the boost timer and the checkpoints
RacerKept(i) ==
    /\ horses'[i].distance = horses[i].distance
    /\ horses'[i].speed = horses[i].speed
    /\ horses'[i].stamina = horses[i].stamina
    /\ horses'[i].finished = horses[i].finished
    /\ i > 1 => /\ horses'[i].boostTimer = horses[i].boostTimer
                /\ horses'[i].usedStrategicBoosts = horses[i].usedStrategicBoosts

\* C30 (Spec): a step taken in a state other than RACING (MENU, COUNTDOWN,
\* FINISHED) leaves the distance, speed, stamina and finished flag of every
\* racer and the boost timer and checkpoint flags of every opponent
\* unchanged, unless it is the restart from FINISHED to COUNTDOWN, which
\* resets every racer; so a racer changes only in a RACING tick, and an
\* opponent that had not finished when the player finished stays where it is.
C30_AdvanceOnlyRacing ==
    [][ gameState # RACING
          => \/ \A i \in 1..Len(horses) : RacerKept(i)
             \/ /\ gameState = FINISHED
                /\ gameState' = COUNTDOWN
                /\ IsTick
                /\ \A i \in 1..Len(horses) : AtStart(horses'[i])
                /\ \A i \in 2..Len(horses) : BoostCleared(horses'[i])
      ]_vars

\* the race is over and an opponent stands short of the line, with speed
\* and with a boost window that had not run out
C30_Witness ==
    /\ gameState = FINISHED
    /\ \E i \in 2..Len(horses) :
          /\ ~horses[i].finished
          /\ horses[i].speed > 0
          /\ horses[i].boostTimer > 0

\* C31 (Spec): after every tick of a race, for every racer, finished is true
\* if and only if its distance is at least track.totalLength, whatever
\* resizes of the window took place between the ticks.
C31_FinishedIffLength ==
    [][ (gameState = RACING /\ IsTick)
          => \A i \in 1..Len(horses) :
               horses'[i].finished <=> horses'[i].distance >= track'.totalLength
      ]_vars

\* C32 (LiveSpec): with frames of 100 ms arriving forever, (a) from every
\* RACING state from which forward is true whenever the state is RACING, the
\* game reaches FINISHED; (b) from every RACING state, every opponent
\* becomes finished unless the state leaves RACING; (c) a step leaves
\* RACING only for FINISHED and only with the player finished, whether or
\* not the opponents have finished.
C32_RaceEnds ==
    /\ []((gameState = RACING /\ [](gameState = RACING => inputState.forward))
            => <>(gameState = FINISHED))
    /\ \A i \in 2..(AiCount + 1) :
          (gameState = RACING) ~> (gameState # RACING \/ horses[i].finished)
    /\ [][ (gameState = RACING /\ gameState' # RACING)
             => gameState' = FINISHED /\ horses'[1].finished ]_vars

\* a race longer than MaxRaceTime has reached FINISHED with forward held,
\* after every opponent had finished
C32_Witness ==
    /\ gameState = FINISHED
    /\ inputState.forward
    /\ raceTime = MaxRaceTime
    /\ \A i \in 1..Len(horses) : horses[i].finished

\* the place that the placements ps give to the racer i
placeIn(ps, i) == (CHOOSE k \in 1..Len(ps) : ps[k].name = racerName(i))

\* C33 (PlacementSpec): in the tick that computes finalPlacements, a racer
\* whose finished flag was true before the tick is not given a larger place
\* than a racer whose finished flag becomes true in the tick; so an opponent
\* that finished before the player is placed ahead of the player.
C33_EarlierFinishAhead ==
    [][ (gameState = RACING /\ gameState' = FINISHED)
          => \A a, b \in 1..Len(horses) :
               (horses[a].finished /\ ~horses[b].finished /\ horses'[b].finished)
                  => placeIn(finalPlacements', a) < placeIn(finalPlacements', b)
      ]_vars

====
